---- MODULE Spec2Model ----
(***************************************************************************)
(* GridLive dashboard: the data-shaping core of utils.py and plotting.py.  *)
(*                                                                         *)
(* Each component is a synchronous transform.  A behaviour picks one       *)
(* component and one input (Init) and applies the component to it; the     *)
(* variables of the other components stay at their idle values.            *)
(*                                                                         *)
(* Tables (pandas DataFrames) are records [columns, rows]: the set of      *)
(* column names and the sequence of rows in index order.                   *)
(***************************************************************************)
EXTENDS Integers, Sequences, FiniteSets, TLC

VARIABLES
    pc,            \* which component runs and whether it has returned
    metadata_df,   \* the caller's table handed to process_esa_metadata
    input_df,      \* history: metadata_df as it was when the call was made
    locations_df,  \* what process_esa_metadata returned
    agg_raised,    \* the exception process_esa_metadata raised, or "none"
    easting,       \* projected easting, in units of 1/UnitsPerMetre metres
    northing,      \* projected northing, same units
    grid_ref,      \* outcome of convert_latlon_to_grid_reference
    combined_data, \* the caller's smart-meter table
    y_column,      \* the column create_smart_meter_plot is asked to plot
    plot,          \* what create_smart_meter_plot built
    radius,        \* argument of the latest calculate_zoom_level call
    zoom,          \* its outcome
    prev_radius,   \* argument of the call before it (-1: none yet)
    prev_zoom,     \* outcome of the call before it
    feeders,       \* <<num_feeders, min_feeders, max_feeders>>
    color,         \* outcome of get_color_for_feeders
    map_locations, \* the table handed to create_substation_map
    show_all_areas,\* its show_all_areas argument
    color_map,     \* the license area -> colour mapping it built
    markers,       \* the colour of each marker it added, in row order
    map_click_location,      \* st.session_state.map_click_location
    map_click_grid_ref,      \* st.session_state.map_click_grid_ref
    last_clicked_substation, \* st.session_state.last_clicked_substation
    last_date_range,         \* st.session_state.last_date_range
    cached_smart_meter_data, \* st.session_state.cached_smart_meter_data
    run            \* what the latest run of the dashboard script did

vars == <<pc, metadata_df, input_df, locations_df, agg_raised, easting, northing,
          grid_ref, combined_data, y_column, plot, radius, zoom, prev_radius,
          prev_zoom, feeders, color, map_locations, show_all_areas, color_map,
          markers, map_click_location, map_click_grid_ref, last_clicked_substation,
          last_date_range, cached_smart_meter_data, run>>

mapVars == <<map_locations, show_all_areas, color_map, markers>>

sessionVars == <<map_click_location, map_click_grid_ref, last_clicked_substation,
                 last_date_range, cached_smart_meter_data, run>>

transformVars == <<pc, metadata_df, input_df, locations_df, agg_raised, easting,
                   northing, grid_ref, combined_data, y_column, plot, radius, zoom,
                   prev_radius, prev_zoom, feeders, color, mapVars>>

(***************************************************************************)
(* Bounds of the model.                                                    *)
(***************************************************************************)
MaxRows == 3
MaxRecords == 3
WestSquares == 15
EastSquares == 11
SouthSquares == 20
NorthSquares == 16
UnitsPerMetre == 2
MaxFeeders == 4

(***************************************************************************)
(* Generic helpers.                                                        *)
(***************************************************************************)
RECURSIVE SeqsUpTo(_, _)
SeqsUpTo(S, n) ==
    IF n = 0 THEN {<<>>}
    ELSE LET shorter == SeqsUpTo(S, n - 1)
         IN  shorter \cup {Append(s, x) : s \in {t \in shorter : Len(t) = n - 1}, x \in S}

\* The rows of s whose index is in keep, in index order.
SelectIdx(s, keep) ==
    LET F[i \in 0..Len(s)] ==
            IF i = 0 THEN <<>>
            ELSE IF i \in keep THEN Append(F[i - 1], s[i]) ELSE F[i - 1]
    IN  F[Len(s)]

None == [kind |-> "None", v |-> 0]
NaN == [kind |-> "nan", v |-> 0]
Num(n) == [kind |-> "num", v |-> n]

EmptyDataFrame == [columns |-> {}, rows |-> <<>>]

(***************************************************************************)
(* Substation Aggregator: utils.process_esa_metadata.                      *)
(***************************************************************************)
SubstationIds == {"A", "B"}
SubstationNames == {"Elm Rd", "Oak St"}
FeederIds == {"f1", "f2"}

RawColumns == {"secondary_substation_id", "secondary_substation_name", "lv_feeder_id"}

RawRows == [secondary_substation_id : SubstationIds,
            secondary_substation_name : SubstationNames,
            lv_feeder_id : FeederIds]

\* A table as pd.DataFrame(data) builds it from the provider's JSON rows; with
\* no data the fetch functions return pd.DataFrame(), which has no columns.
FetchedTable(rows) ==
    IF rows = <<>> THEN EmptyDataFrame
    ELSE [columns |-> RawColumns, rows |-> rows]

\* groupby("secondary_substation_id")[...].transform("count"): for each row,
\* the number of rows of its group.
GroupCountOfFirst(rows, i) ==
    Cardinality({j \in 1..Len(rows) :
                    rows[j].secondary_substation_id = rows[1].secondary_substation_id})

GroupCount(rows, i) ==
    Cardinality({j \in 1..Len(rows) :
                    rows[j].secondary_substation_id = rows[i].secondary_substation_id})

\* metadata_df["number_of_feeders"] = ...: the column is added to the
\* caller's table itself.
WithFeederCount(df) ==
    [columns |-> df.columns \cup {"number_of_feeders"},
     rows |-> [i \in 1..Len(df.rows) |->
                 [c \in DOMAIN df.rows[i] \cup {"number_of_feeders"} |->
                     IF c = "number_of_feeders" THEN GroupCount(df.rows, i)
                     ELSE df.rows[i][c]]]]

\* drop_duplicates with keep="last".
DropDuplicatesKeepLast(df) ==
    [columns |-> df.columns,
     rows |-> SelectIdx(df.rows,
                {i \in 1..Len(df.rows) : \A j \in (i + 1)..Len(df.rows) :
                    df.rows[j].secondary_substation_id # df.rows[i].secondary_substation_id})]

\* drop_duplicates(subset=["secondary_substation_id"]): keep="first".
DropDuplicates(df) ==
    [columns |-> df.columns,
     rows |-> SelectIdx(df.rows,
                {i \in 1..Len(df.rows) : \A j \in 1..(i - 1) :
                    df.rows[j].secondary_substation_id # df.rows[i].secondary_substation_id})]

\* The EPSG:27700 -> EPSG:4326 projection is geopandas' own; the two columns
\* it fills are recorded, their values are not.
WithLatLon(df) ==
    [columns |-> df.columns \cup {"longitude", "latitude"}, rows |-> df.rows]

ProcessEsaMetadata ==
    /\ pc = "agg_call"
    /\ IF "secondary_substation_id" \notin metadata_df.columns
       THEN /\ agg_raised' = "KeyError"
            /\ UNCHANGED <<metadata_df, locations_df>>
       ELSE /\ agg_raised' = "none"
            /\ metadata_df' = WithFeederCount(metadata_df)
            /\ locations_df' = WithLatLon(DropDuplicates(WithFeederCount(metadata_df)))
    /\ pc' = "agg_done"
    /\ UNCHANGED <<input_df, easting, northing, grid_ref, combined_data, y_column,
                   plot, radius, zoom, prev_radius, prev_zoom, feeders, color>>
    /\ UNCHANGED <<mapVars, sessionVars>>

InitAggregator ==
    /\ pc = "agg_call"
    /\ metadata_df \in {FetchedTable(rows) : rows \in SeqsUpTo(RawRows, MaxRows)}
    /\ input_df = metadata_df
    /\ locations_df = EmptyDataFrame
    /\ agg_raised = "none"

(***************************************************************************)
(* Geodetic Transform: utils.convert_latlon_to_grid_reference, from the    *)
(* projected easting/northing on.  The WGS84 -> EPSG:27700 projection is   *)
(* pyproj's; its result is the input here.  Coordinates are floats in the  *)
(* code and whole multiples of 1/UnitsPerMetre metres here.                *)
(***************************************************************************)
Ok(v) == [raised |-> "none", value |-> v]
Raise(e, v) == [raised |-> e, value |-> v]

Metres(m) == m * UnitsPerMetre

\* int(a / b), b > 0: truncation toward zero.
TruncDiv(a, b) == IF a >= 0 THEN a \div b ELSE -((-a) \div b)

\* floor(a / b), b > 0.
FloorDiv(a, b) == a \div b

\* a % b on Python floats, b > 0: the result has the sign of b.
PyMod(a, b) == a % b

\* Python list indexing: a negative index counts from the end.
PyInRange(list, i) == -Len(list) <= i /\ i < Len(list)
PyItem(list, i) == list[(IF i < 0 THEN i + Len(list) ELSE i) + 1]

first_letters == << <<"S", "T">>, <<"N", "O">>, <<"H", "J">> >>

second_letters == << <<"V", "Q", "L", "F", "A">>,
                     <<"W", "R", "M", "G", "B">>,
                     <<"X", "S", "N", "H", "C">>,
                     <<"Y", "T", "O", "J", "D">>,
                     <<"Z", "U", "P", "K", "E">> >>

E500(e) == TruncDiv(e, Metres(500000))
N500(n) == TruncDiv(n, Metres(500000))
E100(e) == TruncDiv(PyMod(e, Metres(500000)), Metres(100000))
N100(n) == TruncDiv(PyMod(n, Metres(500000)), Metres(100000))

\* if n_500 < len(first_letters) and e_500 < len(first_letters[n_500]): ...
\* else: first_letter = "S"
FirstLetter(e_500, n_500) ==
    IF n_500 < Len(first_letters)
    THEN IF ~PyInRange(first_letters, n_500) THEN Raise("IndexError", "")
         ELSE IF e_500 < Len(PyItem(first_letters, n_500))
              THEN IF ~PyInRange(PyItem(first_letters, n_500), e_500)
                   THEN Raise("IndexError", "")
                   ELSE Ok(PyItem(PyItem(first_letters, n_500), e_500))
              ELSE Ok("S")
    ELSE Ok("S")

SecondLetter(e_100, n_100) == PyItem(PyItem(second_letters, e_100), 4 - n_100)

EWithin(e) == TruncDiv(PyMod(e, Metres(100000)), UnitsPerMetre)
NWithin(n) == TruncDiv(PyMod(n, Metres(100000)), UnitsPerMetre)

DigitChars == <<"0", "1", "2", "3", "4", "5", "6", "7", "8", "9">>

RECURSIVE Decimal(_)
Decimal(n) ==
    IF n < 10 THEN <<DigitChars[n + 1]>>
    ELSE Append(Decimal(n \div 10), DigitChars[(n % 10) + 1])

RECURSIVE Zeros(_)
Zeros(k) == IF k <= 0 THEN <<>> ELSE <<"0">> \o Zeros(k - 1)

\* f"{n}": no padding.
FormatD(n) == Decimal(n)

\* f"{n:05d}", n >= 0: zero-padded to at least 5 characters.
Format05d(n) == Zeros(5 - Len(Decimal(n))) \o Decimal(n)

GridReference(e, n) ==
    LET first == FirstLetter(E500(e), N500(n))
    IN  IF first.raised # "none" THEN Raise(first.raised, <<>>)
        ELSE Ok(<<first.value, SecondLetter(E100(e), N100(n))>>
                \o Format05d(EWithin(e)) \o Format05d(NWithin(n)))

ConvertLatlonToGridReference ==
    /\ pc = "grid_call"
    /\ grid_ref' = GridReference(easting, northing)
    /\ pc' = "grid_done"
    /\ UNCHANGED <<metadata_df, input_df, locations_df, agg_raised, easting, northing,
                   combined_data, y_column, plot, radius, zoom, prev_radius,
                   prev_zoom, feeders, color>>
    /\ UNCHANGED <<mapVars, sessionVars>>

\* Sampled coordinates: in every 100 km column (row) of the range, a point just
\* inside its west (south) edge, one just inside its east (north) edge, and
\* one at the offset of the reference point TG 51409 13177.
EastOffsets == {1, Metres(51409), Metres(100000) - 1}
NorthOffsets == {1, Metres(13177), Metres(100000) - 1}
Eastings == {Metres(100000) * k + d : k \in (-WestSquares)..EastSquares, d \in EastOffsets}
Northings == {Metres(100000) * k + d : k \in (-SouthSquares)..NorthSquares, d \in NorthOffsets}

InitGrid ==
    /\ pc = "grid_call"
    /\ easting \in Eastings
    /\ northing \in Northings
    /\ grid_ref = Ok(<<>>)

(***************************************************************************)
(* Smart-Meter Series Builder: plotting.create_smart_meter_plot.           *)
(* A reading is NaN (missing: JSON null, or a column one feeder lacks) or  *)
(* a number.  The table carries the one measurement column asked for.      *)
(***************************************************************************)
OutlierCeiling == 1000000

PrimaryColumn == "active_total_consumption_import"
MeasurementColumns == {PrimaryColumn, "active_total_consumption_export"}
\* The columns c with c.endswith("import").
ImportColumns == {PrimaryColumn}

Timestamps == 1..2
Readings == {NaN, Num(500), Num(OutlierCeiling), Num(2 * OutlierCeiling)}

MeterRows(col) ==
    {[c \in {"data_timestamp", "lv_feeder_id", col} |->
        IF c = "data_timestamp" THEN t ELSE IF c = "lv_feeder_id" THEN f ELSE v] :
            t \in Timestamps, f \in FeederIds, v \in Readings}

MeterTable(col, rows) == [columns |-> {"data_timestamp", "lv_feeder_id", col}, rows |-> rows]

\* combined_data[y_column] <= 1_000_000, row by row: False for NaN.
WithinCeiling(reading) == reading.kind = "num" /\ reading.v <= OutlierCeiling

\* Removing from the list being walked: the row after a removed one is skipped.
RemoveWhileIterating(rows, col) ==
    SelectIdx(rows, {i \in 1..Len(rows) :
                        \/ WithinCeiling(rows[i][col])
                        \/ (i > 1 /\ ~WithinCeiling(rows[i - 1][col]))})

\* combined_data[mask].copy(): the rows whose mask is True, in index order.
OutlierFilter(rows, col) == SelectIdx(rows, {i \in 1..Len(rows) : WithinCeiling(rows[i][col])})

RECURSIVE InsertByTimestamp(_, _)
InsertByTimestamp(sorted, row) ==
    IF sorted = <<>> THEN <<row>>
    ELSE IF sorted[Len(sorted)].data_timestamp <= row.data_timestamp
         THEN Append(sorted, row)
         ELSE Append(InsertByTimestamp(SubSeq(sorted, 1, Len(sorted) - 1), row),
                     sorted[Len(sorted)])

\* Keyed by timestamp: a row whose timestamp is already there replaces it.
RECURSIVE SortKeyedByTimestamp(_)
SortKeyedByTimestamp(rows) ==
    IF rows = <<>> THEN <<>>
    ELSE LET done == SortKeyedByTimestamp(SubSeq(rows, 1, Len(rows) - 1))
             last == rows[Len(rows)]
         IN  InsertByTimestamp(
                 SelectIdx(done, {i \in 1..Len(done) :
                                    done[i].data_timestamp # last.data_timestamp}),
                 last)

\* sort_values(by="data_timestamp"): ascending.  The default sort is not
\* stable; equal timestamps are kept in index order here, as numpy's insertion
\* sort of a short array leaves them.
RECURSIVE SortValues(_)
SortValues(rows) ==
    IF rows = <<>> THEN <<>>
    ELSE InsertByTimestamp(SortValues(SubSeq(rows, 1, Len(rows) - 1)), rows[Len(rows)])

\* Series.max(): NaN for no rows.
SeriesMax(rows, col) ==
    IF rows = <<>> THEN NaN
    ELSE Num(CHOOSE m \in {rows[i][col].v : i \in 1..Len(rows)} :
                \A i \in 1..Len(rows) : rows[i][col].v <= m)

\* y_column.replace("_", " ").title(), plus " (Wh)" for an import column.
YLabel(col) == [of |-> col, unit |-> IF col \in ImportColumns THEN " (Wh)" ELSE ""]

\* The maximum taken before the filter.
SmartMeterPlotMaxOfInput(df, col) ==
    LET filtered == OutlierFilter(df.rows, col)
        data == SortValues(filtered)
        max_value == IF col = PrimaryColumn THEN SeriesMax(df.rows, col) ELSE None
    IN  [filtered |-> filtered,
         data |-> data,
         y_label |-> YLabel(col),
         max_value |-> max_value,
         hline |-> col = PrimaryColumn /\ max_value # None]

SmartMeterPlot(df, col) ==
    LET filtered == OutlierFilter(df.rows, col)
        data == SortValues(filtered)
        max_value == IF col = PrimaryColumn THEN SeriesMax(data, col) ELSE None
    IN  [filtered |-> filtered,
         data |-> data,
         y_label |-> YLabel(col),
         max_value |-> max_value,
         hline |-> col = PrimaryColumn /\ max_value # None]

NoPlot == [filtered |-> <<>>, data |-> <<>>, y_label |-> YLabel(""),
           max_value |-> None, hline |-> FALSE]

CreateSmartMeterPlot ==
    /\ pc = "plot_call"
    /\ plot' = SmartMeterPlot(combined_data, y_column)
    /\ pc' = "plot_done"
    /\ UNCHANGED <<metadata_df, input_df, locations_df, agg_raised, easting, northing,
                   grid_ref, combined_data, y_column, radius, zoom, prev_radius,
                   prev_zoom, feeders, color>>
    /\ UNCHANGED <<mapVars, sessionVars>>

InitPlot ==
    /\ pc = "plot_call"
    /\ y_column \in MeasurementColumns
    /\ combined_data \in {MeterTable(y_column, rows) :
                            rows \in SeqsUpTo(MeterRows(y_column), MaxRecords) \ {<<>>}}
    /\ plot = NoPlot

(***************************************************************************)
(* Color/Style Mapper: plotting.calculate_zoom_level.                      *)
(***************************************************************************)
MinZoom == 1
MaxZoom == 18
DefaultMapHeight == 600

\* 156543.03392 * cos(radians(54.0)) * 0.7 / 2 = 32204.790340...: the whole
\* metres and the millionths of a metre.
FitWhole == 32204
FitMicro == 790340

\* floor(156543.03392 * cos(lat) * map_height * 0.7 / 2): the largest whole
\* radius r with log2(156543.03392 * cos(lat) / (r * 2 / 0.7 / map_height)) >= 0.
FitRadius(map_height) == FitWhole * map_height + (FitMicro * map_height) \div 1000000

Max2(a, b) == IF a >= b THEN a ELSE b
Min2(a, b) == IF a <= b THEN a ELSE b
SetMax(S) == CHOOSE m \in S : \A x \in S : x <= m
SetMin(S) == CHOOSE m \in S : \A x \in S : m <= x

\* floor(log2(k / r)) for whole k, r > 0: r * 2^z <= k < r * 2^(z + 1).
FloorLog2Ratio(k, r) ==
    IF r <= k THEN SetMax({z \in 0..30 : r <= k \div (2 ^ z)})
    ELSE -SetMin({z \in 1..6 : r <= k * (2 ^ z)})

\* int(max(1, zoom)): the clamp to 18 left out.
ZoomUnclampedAbove(r, map_height) ==
    IF r = 0 THEN Raise("ZeroDivisionError", 0)
    ELSE Ok(Max2(MinZoom, FloorLog2Ratio(FitRadius(map_height), r)))

\* int(max(1, min(18, zoom))); radius 0 divides by meters_per_pixel = 0.0.
ZoomLevel(r, map_height) ==
    IF r = 0 THEN Raise("ZeroDivisionError", 0)
    ELSE Ok(Max2(MinZoom, Min2(MaxZoom, FloorLog2Ratio(FitRadius(map_height), r))))

\* Sampled radii: the sidebar's bounds and default, the claim's bounds, and
\* the two radii either side of every zoom threshold.
Radii ==
    {0, 1, 1000, 10000, 100000, 10000000, 2 * 10000000}
    \cup {FitRadius(DefaultMapHeight) \div (2 ^ z) + d : z \in 0..(MaxZoom + 1), d \in {0, 1}}

CalculateZoomLevel ==
    /\ pc = "zoom_call"
    /\ zoom' = ZoomLevel(radius, DefaultMapHeight)
    /\ pc' = "zoom_done"
    /\ UNCHANGED <<metadata_df, input_df, locations_df, agg_raised, easting, northing,
                   grid_ref, combined_data, y_column, plot, radius, prev_radius,
                   prev_zoom, feeders, color>>
    /\ UNCHANGED <<mapVars, sessionVars>>

\* The caller asks again, for another radius.
NextRadius ==
    /\ pc = "zoom_done"
    /\ \E r \in Radii : radius' = r
    /\ prev_radius' = radius
    /\ prev_zoom' = zoom
    /\ pc' = "zoom_call"
    /\ UNCHANGED <<metadata_df, input_df, locations_df, agg_raised, easting, northing,
                   grid_ref, combined_data, y_column, plot, zoom, feeders, color>>
    /\ UNCHANGED <<mapVars, sessionVars>>

InitZoom ==
    /\ pc = "zoom_call"
    /\ radius \in Radii
    /\ zoom = Ok(0)
    /\ prev_radius = -1
    /\ prev_zoom = Ok(0)

(***************************************************************************)
(* Color/Style Mapper: plotting.get_color_for_feeders.                     *)
(* A colour is the default "#3388ff" or an entry of the RdYlGn_r lookup    *)
(* table (256 entries), named by its index.                                *)
(***************************************************************************)
LutSize == 256

DefaultColor == [hex |-> "#3388ff", cmap |-> "", lut |-> 0]
RampColor(i) == [hex |-> "", cmap |-> "RdYlGn_r", lut |-> i]

\* (num_feeders - min_feeders) / (max_feeders - min_feeders), as a fraction.
Normalized(num_feeders, min_feeders, max_feeders) ==
    IF max_feeders - min_feeders > 0
    THEN <<num_feeders - min_feeders, max_feeders - min_feeders>>
    ELSE <<min_feeders - num_feeders, min_feeders - max_feeders>>

\* colormap(x): entry int(x * N), below 0 the first and from 1 on the last.
ColormapIndex(x) ==
    IF x[1] < 0 THEN 0
    ELSE IF x[1] >= x[2] THEN LutSize - 1
    ELSE (x[1] * LutSize) \div x[2]

\* The function without its max_feeders == min_feeders test.
ColorWithoutDegenerateTest(num_feeders, min_feeders, max_feeders) ==
    IF max_feeders - min_feeders = 0 THEN Raise("ZeroDivisionError", DefaultColor)
    ELSE Ok(RampColor(ColormapIndex(Normalized(num_feeders, min_feeders, max_feeders))))

GetColorForFeeders(num_feeders, min_feeders, max_feeders) ==
    IF max_feeders = min_feeders THEN Ok(DefaultColor)
    ELSE Ok(RampColor(ColormapIndex(Normalized(num_feeders, min_feeders, max_feeders))))

GetColor ==
    /\ pc = "color_call"
    /\ color' = GetColorForFeeders(feeders[1], feeders[2], feeders[3])
    /\ pc' = "color_done"
    /\ UNCHANGED <<metadata_df, input_df, locations_df, agg_raised, easting, northing,
                   grid_ref, combined_data, y_column, plot, radius, zoom, prev_radius,
                   prev_zoom, feeders>>
    /\ UNCHANGED <<mapVars, sessionVars>>

InitColor ==
    /\ pc = "color_call"
    /\ feeders \in (0..MaxFeeders) \X (0..MaxFeeders) \X (0..MaxFeeders)
    /\ color = Ok(DefaultColor)

(***************************************************************************)
(* Color/Style Mapper: plotting.create_substation_map.                     *)
(***************************************************************************)
MaxMarkers == 3

\* License area names, in sorted (string) order.
AreaNames == <<"East Midlands", "London", "Yorkshire">>
AreaRank(a) == CHOOSE i \in 1..Len(AreaNames) : AreaNames[i] = a

colors == <<"blue", "red", "green", "purple", "orange", "darkred", "lightred",
            "beige", "darkblue", "darkgreen", "cadetblue", "darkpurple", "pink",
            "lightblue", "lightgreen", "gray", "black", "lightgray">>

LocationRows == [license_area_name : {AreaNames[i] : i \in 1..Len(AreaNames)},
                 number_of_feeders : 1..2]

\* Series.unique(): the distinct values in order of first appearance.
Unique(values) ==
    SelectIdx(values, {i \in 1..Len(values) : \A j \in 1..(i - 1) : values[j] # values[i]})

\* sorted(Series.unique()).
RECURSIVE SortedAreas(_)
SortedAreas(S) ==
    IF S = {} THEN <<>>
    ELSE LET least == CHOOSE a \in S : \A b \in S : AreaRank(a) <= AreaRank(b)
         IN  <<least>> \o SortedAreas(S \ {least})

PositionIn(seq, x) == CHOOSE i \in 1..Len(seq) : seq[i] = x

\* {area: colors[i % len(colors)] for i, area in enumerate(unique_areas)}
ColorMapOf(unique_areas) ==
    [a \in {unique_areas[i] : i \in 1..Len(unique_areas)} |->
        colors[((PositionIn(unique_areas, a) - 1) % Len(colors)) + 1]]

\* color_map.get(license_area, "gray")
GetColorForLicenseArea(license_area, cmap) ==
    IF license_area \in DOMAIN cmap THEN cmap[license_area] ELSE "gray"

AreaColumn(df) == [i \in 1..Len(df.rows) |-> df.rows[i].license_area_name]
FeederColumn(df) == {df.rows[i].number_of_feeders : i \in 1..Len(df.rows)}

CreateSubstationMap ==
    /\ pc = "map_call"
    /\ IF map_locations.rows = <<>>
       THEN color_map' = <<>> /\ markers' = <<>>
       ELSE IF show_all_areas
       THEN LET cmap == ColorMapOf(Unique(AreaColumn(map_locations)))
            IN  /\ color_map' = cmap
                /\ markers' = [i \in 1..Len(map_locations.rows) |->
                                 GetColorForLicenseArea(
                                     map_locations.rows[i].license_area_name, cmap)]
       ELSE /\ color_map' = <<>>
            /\ markers' = [i \in 1..Len(map_locations.rows) |->
                             GetColorForFeeders(map_locations.rows[i].number_of_feeders,
                                                SetMin(FeederColumn(map_locations)),
                                                SetMax(FeederColumn(map_locations)))]
    /\ pc' = "map_done"
    /\ UNCHANGED <<metadata_df, input_df, locations_df, agg_raised, easting, northing,
                   grid_ref, combined_data, y_column, plot, radius, zoom, prev_radius,
                   prev_zoom, feeders, color, map_locations, show_all_areas>>
    /\ UNCHANGED sessionVars

InitMap ==
    /\ pc = "map_call"
    /\ map_locations \in {[columns |-> {"license_area_name", "number_of_feeders"},
                           rows |-> rows] : rows \in SeqsUpTo(LocationRows, MaxMarkers)}
    /\ show_all_areas \in BOOLEAN
    /\ color_map = <<>>
    /\ markers = <<>>

IdleMap ==
    /\ map_locations = EmptyDataFrame
    /\ show_all_areas = FALSE
    /\ color_map = <<>>
    /\ markers = <<>>

(***************************************************************************)
(* Dashboard session: streamlit_app.py.  Streamlit runs the script from    *)
(* top to bottom on every interaction; a step is one such run.  The        *)
(* widget values and the provider's answers are the inputs of a run, the   *)
(* st.session_state entries are what survives it, and run records what     *)
(* the run did.  A session_state key that does not exist yet is None: the  *)
(* script creates each key as None before its first read.                  *)
(*                                                                         *)
(* Python None is <<>> for the tuples and "None" for the substation id.    *)
(* Latitude and longitude are whole multiples of 1/UnitsPerMilliDegree     *)
(* thousandths of a degree; dates are day numbers.                         *)
(***************************************************************************)
FeederLimit == 10
ExtraFeeders == 1
UnitsPerMilliDegree == 2

Modes == {"Map Click", "License Area"}

\* The radius number_input: its minimum, its default and its maximum.
SidebarRadii == {0, 10000, 100000}

\* abs(...) > 0.001
ClickThreshold == UnitsPerMilliDegree
Abs(x) == IF x < 0 THEN -x ELSE x

\* map_data["last_clicked"]: None, or a point on, inside or beyond the
\* threshold from the first point in either coordinate.
ClickPoints == {<<0, 0>>, <<ClickThreshold, 0>>, <<ClickThreshold + 1, 0>>,
                <<0, ClickThreshold + 1>>}
LastClicked == {<<>>} \cup ClickPoints

\* (start_date, end_date) of the two date inputs.
DateRanges == {<<1, 2>>, <<1, 3>>}

\* OSGridConverter's latlong2grid, printed without spaces: a reference with
\* one-metre digits, so the points above all get references of their own.
LatlonToGridReference(lat, lon) == <<"OSGB36", lat, lon>>

\* The provider's directory: substation A has more feeders than the fetch
\* loop takes, substation B has two, and the rows of B lie among those of A.
FeedersOf(s) == IF s = "A" THEN FeederLimit + ExtraFeeders ELSE 2
NameOf(s) == IF s = "A" THEN "Elm Rd" ELSE "Oak St"
SiteOf(s) == IF s = "A" THEN "site1" ELSE "site2"

EsaColumns == {"secondary_substation_id", "secondary_substation_name", "esa_id",
               "lv_feeder_id", "site"}

EsaRow(s, i) ==
    [secondary_substation_id |-> s,
     secondary_substation_name |-> NameOf(s),
     esa_id |-> <<"esa", s, i>>,
     lv_feeder_id |-> <<"lv", s, i>>,
     site |-> SiteOf(s)]

DirectoryRows ==
    <<EsaRow("A", 1), EsaRow("B", 1)>>
    \o [i \in 1..(FeedersOf("A") - 1) |-> EsaRow("A", i + 1)]
    \o <<EsaRow("B", 2)>>

\* What fetch_esa_metadata / fetch_esa_metadata_near_grid return: no data
\* (or a failed request), or the directory.
MetadataAnswers == {EmptyDataFrame, [columns |-> EsaColumns, rows |-> DirectoryRows]}

\* map_data["last_object_clicked"]: None, a marker's position, or anything
\* else drawn on the map (the radius circle, the centre marker).
ObjectClicks == {"none", "elsewhere"} \cup {SiteOf(s) : s \in SubstationIds}

\* Which feeders (by their number) the provider has no readings for.
NoDataChoices == {{}, {1}, {2, FeederLimit}, 1..(FeederLimit + ExtraFeeders)}

SmartMeterColumns == {"esa_id", "data_timestamp", PrimaryColumn}

\* fetch_smart_meter_data(API_KEY, esa_id, start, end): pd.DataFrame() for no
\* data or a failed request, else one reading per day of the range.
FetchSmartMeterData(esa_id, range, nodata) ==
    IF esa_id[3] \in nodata THEN EmptyDataFrame
    ELSE [columns |-> SmartMeterColumns,
          rows |-> [k \in 1..(range[2] - range[1] + 1) |->
                      [c \in SmartMeterColumns |->
                          IF c = "esa_id" THEN esa_id
                          ELSE IF c = "data_timestamp" THEN range[1] + k - 1
                          ELSE Num(100 * esa_id[3] + k)]]]

\* df_smart["lv_feeder_id"] = lv_feeder_id
WithFeederId(df, lv_feeder_id) ==
    [columns |-> df.columns \cup {"lv_feeder_id"},
     rows |-> [k \in 1..Len(df.rows) |->
                 [c \in DOMAIN df.rows[k] \cup {"lv_feeder_id"} |->
                     IF c = "lv_feeder_id" THEN lv_feeder_id ELSE df.rows[k][c]]]]

\* The loop with count += 1 inside the "if not df_smart.empty" branch: a
\* feeder without data does not count toward the limit.
RECURSIVE FetchLoopCountingData(_, _, _, _, _, _, _)
FetchLoopCountingData(substation_esas, i, range, nodata, count, fetched, all_data) ==
    IF i > Len(substation_esas) \/ count >= FeederLimit
    THEN [count |-> count, fetched |-> fetched, all_data |-> all_data]
    ELSE LET esa_row == substation_esas[i]
             df_smart == FetchSmartMeterData(esa_row.esa_id, range, nodata)
         IN  FetchLoopCountingData(
                 substation_esas, i + 1, range, nodata,
                 IF df_smart.rows # <<>> THEN count + 1 ELSE count,
                 Append(fetched, <<esa_row.esa_id, range>>),
                 IF df_smart.rows # <<>>
                 THEN Append(all_data, WithFeederId(df_smart, esa_row.lv_feeder_id))
                 ELSE all_data)

\* The for loop over substation_esas.iterrows(), from row i on, with count
\* and all_data as they stand and fetched the requests issued so far; the
\* break at count >= 10 ends the walk after the row that reaches it.
RECURSIVE FetchLoop(_, _, _, _, _, _, _)
FetchLoop(substation_esas, i, range, nodata, count, fetched, all_data) ==
    IF i > Len(substation_esas) \/ count >= FeederLimit
    THEN [count |-> count, fetched |-> fetched, all_data |-> all_data]
    ELSE LET esa_row == substation_esas[i]
             df_smart == FetchSmartMeterData(esa_row.esa_id, range, nodata)
         IN  FetchLoop(substation_esas, i + 1, range, nodata, count + 1,
                       Append(fetched, <<esa_row.esa_id, range>>),
                       IF df_smart.rows # <<>>
                       THEN Append(all_data, WithFeederId(df_smart, esa_row.lv_feeder_id))
                       ELSE all_data)

RECURSIVE RowsOfAll(_)
RowsOfAll(tables) ==
    IF tables = <<>> THEN <<>>
    ELSE tables[1].rows \o RowsOfAll(Tail(tables))

\* One row per timestamp, as a join of the feeders on data_timestamp keeps.
MergeOnTimestamp(tables) ==
    LET rows == RowsOfAll(tables)
    IN  [columns |-> UNION {tables[t].columns : t \in 1..Len(tables)},
         rows |-> SelectIdx(rows, {k \in 1..Len(rows) : \A j \in 1..(k - 1) :
                                     rows[j].data_timestamp # rows[k].data_timestamp})]

\* pd.concat(all_data, ignore_index=True): the rows of the tables one table
\* after the other, over the union of their columns, NaN where a table lacks
\* a column.
Concat(tables) ==
    LET columns == UNION {tables[t].columns : t \in 1..Len(tables)}
        rows == RowsOfAll(tables)
    IN  [columns |-> columns,
         rows |-> [k \in 1..Len(rows) |->
                     [c \in columns |->
                         IF c \in DOMAIN rows[k] THEN rows[k][c] ELSE NaN]]]

\* is_new_location with >= in place of >.
IsNewLocationAtThreshold(clicked, location) ==
    \/ location = <<>>
    \/ Abs(clicked[1] - location[1]) >= ClickThreshold
    \/ Abs(clicked[2] - location[2]) >= ClickThreshold

IsNewLocation(clicked, location) ==
    \/ location = <<>>
    \/ Abs(clicked[1] - location[1]) > ClickThreshold
    \/ Abs(clicked[2] - location[2]) > ClickThreshold

\* need_to_fetch from the substation id alone.
NeedToFetchForSubstation(substation_id, current_date_range, last_substation, last_range) ==
    last_substation # substation_id

NeedToFetch(substation_id, current_date_range, last_substation, last_range) ==
    \/ last_substation # substation_id
    \/ last_range # current_date_range

\* What a run that did nothing yet has done.
NoRun ==
    [mode |-> "none", radius |-> -1, near |-> <<>>, rendered |-> "none",
     zoom |-> Ok(0), last_clicked |-> <<>>, rerun |-> FALSE, selected |-> "None",
     date_range |-> <<>>, need_to_fetch |-> FALSE, fetched |-> <<>>,
     combined |-> EmptyDataFrame, plotted |-> FALSE, selected_column |-> ""]

\* The end of a run that wrote nothing to st.session_state.
Finish(r) ==
    /\ run' = r
    /\ UNCHANGED <<map_click_location, map_click_grid_ref, last_clicked_substation,
                   last_date_range, cached_smart_meter_data>>

\* "Use cached data": the table and the column handed to
\* create_smart_meter_plot (modelled above) for what cached_smart_meter_data
\* holds; the selectbox is left at its default.
WithPlotOf(cache, r) ==
    IF cache # <<>> /\ cache[1] # <<>>
    THEN LET combined == Concat(cache[1])
             available_columns == combined.columns
                                    \ {"esa_id", "data_timestamp", "lv_feeder_id"}
             selected_column == IF PrimaryColumn \in available_columns THEN PrimaryColumn
                                ELSE CHOOSE c \in available_columns : TRUE
         IN  IF available_columns # {}
             THEN [r EXCEPT !.combined = combined, !.plotted = TRUE,
                            !.selected_column = selected_column]
             ELSE [r EXCEPT !.combined = combined]
    ELSE r

\* The smart meter section, for the metadata_df of this run and the marker
\* the user clicked.  (\E over a one-element set names a value that is
\* computed once.)
SmartMeterSection(metadata, object_clicked, r) ==
    IF metadata.rows = <<>> THEN Finish(r)
    ELSE
      \E counted \in {WithFeederCount(metadata)} :
      \E locations \in {WithLatLon(DropDuplicates(counted))} :
      \E clicked_substation \in
              {SelectIdx(locations.rows, {k \in 1..Len(locations.rows) :
                                            locations.rows[k].site = object_clicked})} :
      IF locations.rows = <<>> \/ object_clicked = "none" \/ clicked_substation = <<>>
      THEN Finish(r)
      ELSE
        \E substation_id \in {clicked_substation[1].secondary_substation_id} :
        \E substation_name \in {clicked_substation[1].secondary_substation_name} :
        \E substation_esas \in
                {SelectIdx(counted.rows, {k \in 1..Len(counted.rows) :
                            counted.rows[k].secondary_substation_id = substation_id})} :
        \E current_date_range \in DateRanges :
        \E need_to_fetch \in {NeedToFetch(substation_id, current_date_range,
                                          last_clicked_substation, last_date_range)} :
        \E chosen \in {[r EXCEPT !.selected = substation_id,
                                 !.date_range = current_date_range,
                                 !.need_to_fetch = need_to_fetch]} :
          IF need_to_fetch
          THEN \E nodata \in NoDataChoices :
               \E loop \in {FetchLoop(substation_esas, 1, current_date_range, nodata,
                                      0, <<>>, <<>>)} :
               \E cache \in {<<loop.all_data, substation_name>>} :
                   /\ last_clicked_substation' = substation_id
                   /\ last_date_range' = current_date_range
                   /\ cached_smart_meter_data' = cache
                   /\ run' = WithPlotOf(cache, [chosen EXCEPT !.fetched = loop.fetched])
                   /\ UNCHANGED <<map_click_location, map_click_grid_ref>>
          ELSE Finish(WithPlotOf(cached_smart_meter_data, chosen))

\* "Handle map clicks in Map Click mode", then the rest of the script unless
\* st.rerun() ends the run.
MapClickHandler(last_clicked, metadata, object_clicked, r) ==
    IF last_clicked # <<>> /\ IsNewLocation(last_clicked, map_click_location)
    THEN /\ map_click_location' = last_clicked
         /\ map_click_grid_ref' = LatlonToGridReference(last_clicked[1], last_clicked[2])
         /\ run' = [r EXCEPT !.last_clicked = last_clicked, !.rerun = TRUE]
         /\ UNCHANGED <<last_clicked_substation, last_date_range, cached_smart_meter_data>>
    ELSE \E handled \in {[r EXCEPT !.last_clicked = last_clicked]} :
             SmartMeterSection(metadata, object_clicked, handled)

MapClickRun(r) ==
    IF map_click_location = <<>>
    THEN \* no fetch; the empty UK map
         \E last_clicked \in LastClicked :
         \E drawn \in {[r EXCEPT !.rendered = "uk"]} :
             MapClickHandler(last_clicked, EmptyDataFrame, "none", drawn)
    ELSE \E metadata \in MetadataAnswers :
         \E zoom_level \in {ZoomLevel(r.radius, DefaultMapHeight)} :
         \E drawn \in {[r EXCEPT !.near = <<map_click_grid_ref, r.radius>>,
                                !.rendered = "circle", !.zoom = zoom_level]} :
             IF zoom_level.raised # "none"
             THEN \* the exception ends the run
                  Finish(drawn)
             ELSE \E last_clicked \in LastClicked, object_clicked \in ObjectClicks :
                      MapClickHandler(last_clicked, metadata, object_clicked, drawn)

\* The map of License Area mode is create_substation_map's, modelled above;
\* it writes nothing to the session.
LicenseAreaRun(r) ==
    \E metadata \in MetadataAnswers :
        IF metadata.rows = <<>> THEN Finish(r)
        ELSE \E object_clicked \in ObjectClicks :
             \E drawn \in {[r EXCEPT !.rendered = "areas"]} :
                 SmartMeterSection(metadata, object_clicked, drawn)

ScriptRun ==
    /\ pc = "session"
    /\ \E mode \in Modes :
         IF mode = "License Area"
         THEN \E r \in {[NoRun EXCEPT !.mode = mode]} : LicenseAreaRun(r)
         ELSE \E sidebar_radius \in SidebarRadii :
              \E r \in {[NoRun EXCEPT !.mode = mode, !.radius = sidebar_radius]} :
                  MapClickRun(r)
    /\ UNCHANGED transformVars

IdleSession ==
    /\ map_click_location = <<>>
    /\ map_click_grid_ref = <<>>
    /\ last_clicked_substation = "None"
    /\ last_date_range = <<>>
    /\ cached_smart_meter_data = <<>>
    /\ run = NoRun

IdleAggregator ==
    /\ metadata_df = EmptyDataFrame
    /\ input_df = EmptyDataFrame
    /\ locations_df = EmptyDataFrame
    /\ agg_raised = "none"

IdleGrid == easting = 0 /\ northing = 0 /\ grid_ref = Ok(<<>>)
IdlePlot == combined_data = EmptyDataFrame /\ y_column = "" /\ plot = NoPlot
IdleZoom == radius = -1 /\ zoom = Ok(0) /\ prev_radius = -1 /\ prev_zoom = Ok(0)
IdleColor == feeders = <<0, 0, 0>> /\ color = Ok(DefaultColor)

Init ==
    \/ InitAggregator /\ IdleGrid /\ IdlePlot /\ IdleZoom /\ IdleColor /\ IdleMap /\ IdleSession
    \/ IdleAggregator /\ InitGrid /\ IdlePlot /\ IdleZoom /\ IdleColor /\ IdleMap /\ IdleSession
    \/ IdleAggregator /\ IdleGrid /\ InitPlot /\ IdleZoom /\ IdleColor /\ IdleMap /\ IdleSession
    \/ IdleAggregator /\ IdleGrid /\ IdlePlot /\ InitZoom /\ IdleColor /\ IdleMap /\ IdleSession
    \/ IdleAggregator /\ IdleGrid /\ IdlePlot /\ IdleZoom /\ InitColor /\ IdleMap /\ IdleSession
    \/ IdleAggregator /\ IdleGrid /\ IdlePlot /\ IdleZoom /\ IdleColor /\ InitMap /\ IdleSession

Next ==
    \/ ProcessEsaMetadata
    \/ ConvertLatlonToGridReference
    \/ CreateSmartMeterPlot
    \/ CalculateZoomLevel
    \/ NextRadius
    \/ GetColor
    \/ CreateSubstationMap

Spec == Init /\ [][Next]_vars

\* The dashboard session on its own: the script run again and again.
InitSession ==
    /\ pc = "session"
    /\ IdleAggregator /\ IdleGrid /\ IdlePlot /\ IdleZoom /\ IdleColor /\ IdleMap
    /\ IdleSession

NextSession == ScriptRun

SpecSession == InitSession /\ [][NextSession]_vars

(***************************************************************************)
(* Properties.                                                             *)
(***************************************************************************)
RECURSIVE SumFeeders(_)
SumFeeders(rows) ==
    IF rows = <<>> THEN 0
    ELSE rows[Len(rows)].number_of_feeders + SumFeeders(SubSeq(rows, 1, Len(rows) - 1))

InputIds == {input_df.rows[i].secondary_substation_id : i \in 1..Len(input_df.rows)}

RowsWithId(rows, id) == {i \in 1..Len(rows) : rows[i].secondary_substation_id = id}

\* C1: for every table of raw substation rows, process_esa_metadata returns
\* exactly one row per distinct secondary_substation_id; each row's
\* number_of_feeders is at least 1 and is the number of input rows with its
\* id; the number_of_feeders of the output add up to the number of input rows.
C1_AggregationInvariant ==
    pc = "agg_done" /\ "secondary_substation_id" \in input_df.columns =>
        /\ agg_raised = "none"
        /\ Len(locations_df.rows) = Cardinality(InputIds)
        /\ \A id \in InputIds : Cardinality(RowsWithId(locations_df.rows, id)) = 1
        /\ \A k \in 1..Len(locations_df.rows) :
              /\ locations_df.rows[k].number_of_feeders >= 1
              /\ locations_df.rows[k].number_of_feeders =
                    Cardinality(RowsWithId(input_df.rows,
                                           locations_df.rows[k].secondary_substation_id))
        /\ SumFeeders(locations_df.rows) = Len(input_df.rows)

\* Rows A, B, A: two substations, A with two feeders and B with one.
C1_Witness ==
    /\ pc = "agg_done"
    /\ Len(input_df.rows) = 3
    /\ input_df.rows[1].secondary_substation_id = "A"
    /\ input_df.rows[2].secondary_substation_id = "B"
    /\ input_df.rows[3].secondary_substation_id = "A"
    /\ Len(locations_df.rows) = 2
    /\ locations_df.rows[1].number_of_feeders = 2
    /\ locations_df.rows[2].number_of_feeders = 1

UpperCase == {"A", "B", "C", "D", "E", "F", "G", "H", "I", "J", "K", "L", "M",
              "N", "O", "P", "Q", "R", "S", "T", "U", "V", "W", "X", "Y", "Z"}

IsDigit(c) == \E d \in 1..10 : DigitChars[d] = c
DigitOf(c) == (CHOOSE d \in 1..10 : DigitChars[d] = c) - 1

RECURSIVE DigitsValue(_)
DigitsValue(ds) ==
    IF ds = <<>> THEN 0
    ELSE 10 * DigitsValue(SubSeq(ds, 1, Len(ds) - 1)) + DigitOf(ds[Len(ds)])

\* Two upper-case letters and ten digits.
LooksLikeGridReference(v) ==
    /\ Len(v) = 12
    /\ v[1] \in UpperCase /\ v[2] \in UpperCase
    /\ \A i \in 3..12 : IsDigit(v[i])

\* The 500 km indices as the spec defines them: floor(E / 500000), floor(N / 500000).
FloorE500 == FloorDiv(easting, Metres(500000))
FloorN500 == FloorDiv(northing, Metres(500000))
InsideLetterTable == FloorE500 \in {0, 1} /\ FloorN500 \in {0, 1, 2}

\* C2: whenever the 500 km indices fall outside the 3-row by 2-column letter
\* table, convert_latlon_to_grid_reference fails: it raises, or returns
\* something that is not a normal-looking grid reference.
C2_FailsOutsideLetterTable ==
    pc = "grid_done" /\ ~InsideLetterTable =>
        \/ grid_ref.raised # "none"
        \/ ~LooksLikeGridReference(grid_ref.value)

\* C3: for the reference point (eastings 651409, northings 313177) the grid
\* reference begins with "TG51".
C3_ReferencePointIsTG51 ==
    pc = "grid_done" /\ easting = Metres(651409) /\ northing = Metres(313177) =>
        /\ grid_ref.raised = "none"
        /\ Len(grid_ref.value) >= 4
        /\ SubSeq(grid_ref.value, 1, 4) = <<"T", "G", "5", "1">>

\* C4: for every point inside the letter table the result is 12 characters:
\* two upper-case letters, then E mod 100000 and N mod 100000, each cut to a
\* whole number and zero-padded to exactly 5 digits.
C4_TwelveCharacterFormat ==
    pc = "grid_done" /\ InsideLetterTable =>
        /\ grid_ref.raised = "none"
        /\ LooksLikeGridReference(grid_ref.value)
        /\ DigitsValue(SubSeq(grid_ref.value, 3, 7)) =
              (easting % Metres(100000)) \div UnitsPerMetre
        /\ DigitsValue(SubSeq(grid_ref.value, 8, 12)) =
              (northing % Metres(100000)) \div UnitsPerMetre

\* A point whose offsets are below 10000 and have a fraction of a metre: both
\* groups are padded and cut.
C4_Witness ==
    /\ pc = "grid_done"
    /\ InsideLetterTable
    /\ easting % Metres(100000) = 1
    /\ northing % Metres(100000) = Metres(13177)
    /\ SubSeq(grid_ref.value, 3, 12) = <<"0", "0", "0", "0", "0", "1", "3", "1", "7", "7">>

\* C5: the first letter is first_letters[n500][e500] for e500 = floor(E / 500000)
\* and n500 = floor(N / 500000); a point with negative eastings or northings
\* has a negative index and gets no letter of the table.
C5_FirstLetterByFloor ==
    pc = "grid_done" =>
        /\ InsideLetterTable =>
              /\ grid_ref.raised = "none"
              /\ grid_ref.value[1] = first_letters[FloorN500 + 1][FloorE500 + 1]
        /\ easting < 0 \/ northing < 0 =>
              \/ grid_ref.raised # "none"
              \/ ~LooksLikeGridReference(grid_ref.value)

Occurrences(rows, r) == Cardinality({i \in 1..Len(rows) : rows[i] = r})

ExceedsCeiling(reading) == reading.kind = "num" /\ reading.v > OutlierCeiling

\* C6: the filter drops a record if and only if its reading exceeds the
\* ceiling: a record above the ceiling is absent from the output, every other
\* record (at the ceiling, or with a missing reading) is present.
C6_DropsExactlyAboveCeiling ==
    pc = "plot_done" =>
        \A i \in 1..Len(combined_data.rows) :
            LET r == combined_data.rows[i]
            IN  Occurrences(plot.data, r) =
                    IF ExceedsCeiling(r[y_column]) THEN 0
                    ELSE Occurrences(combined_data.rows, r)

\* C7: filtering the filtered records again, with the same ceiling, gives the
\* same records.
C7_FilterIdempotent ==
    pc = "plot_done" => OutlierFilter(plot.filtered, y_column) = plot.filtered

\* The filter dropped a record and kept another.
C7_Witness ==
    /\ pc = "plot_done"
    /\ plot.filtered # <<>>
    /\ Len(plot.filtered) < Len(combined_data.rows)
    /\ OutlierFilter(plot.filtered, y_column) = plot.filtered

\* C8: the plotted records are in ascending data_timestamp order and are a
\* permutation of the filtered records: none dropped, none duplicated.
C8_SortedPermutation ==
    pc = "plot_done" =>
        /\ \A i, j \in 1..Len(plot.data) :
              i < j => plot.data[i].data_timestamp <= plot.data[j].data_timestamp
        /\ Len(plot.data) = Len(plot.filtered)
        /\ \A i \in 1..Len(plot.filtered) :
              Occurrences(plot.data, plot.filtered[i]) =
                  Occurrences(plot.filtered, plot.filtered[i])

\* Two feeders share a timestamp, and the table arrived out of order.
C8_Witness ==
    /\ pc = "plot_done"
    /\ Len(plot.filtered) = 3
    /\ plot.filtered[1].data_timestamp > plot.filtered[2].data_timestamp
    /\ plot.filtered[1].data_timestamp = plot.filtered[3].data_timestamp
    /\ plot.filtered[1].lv_feeder_id # plot.filtered[3].lv_feeder_id
    /\ plot.data[1] = plot.filtered[2]

ClaimedRadii == 1..10000000

\* C9: for every radius in [1, 10000000] (map height 600) the zoom level is a
\* whole number in [1, 18], and a larger radius never gets a larger zoom.
C9_ZoomClampedAndMonotone ==
    pc = "zoom_done" /\ radius \in ClaimedRadii =>
        /\ zoom.raised = "none"
        /\ zoom.value \in MinZoom..MaxZoom
        /\ prev_radius \in ClaimedRadii /\ prev_radius <= radius =>
              prev_zoom.value >= zoom.value
        /\ prev_radius \in ClaimedRadii /\ radius <= prev_radius =>
              zoom.value >= prev_zoom.value

\* Both ends of the range, one call after the other.
C9_Witness ==
    /\ pc = "zoom_done"
    /\ prev_radius = 1 /\ prev_zoom = Ok(MaxZoom)
    /\ radius = 10000000 /\ zoom = Ok(MinZoom)

\* C10: with min_feeders = max_feeders, get_color_for_feeders returns the
\* default colour for every num_feeders, and raises nothing.
C10_DegenerateScaleDefault ==
    pc = "color_done" /\ feeders[2] = feeders[3] => color = Ok(DefaultColor)

\* num_feeders differs from the one feeder count of the scale.
C10_Witness ==
    /\ pc = "color_done"
    /\ feeders[2] = feeders[3]
    /\ feeders[1] # feeders[2]
    /\ color.value.hex = "#3388ff"

\* C12: no component changes its input in place: when process_esa_metadata or
\* create_smart_meter_plot returns, the caller's table has the columns and the
\* rows it had before the call.
C12_InputsNotMutated ==
    [][/\ pc = "agg_call" /\ pc' = "agg_done" => metadata_df' = metadata_df
       /\ pc = "plot_call" /\ pc' = "plot_done" => combined_data' = combined_data]_vars

\* C13: given zero input rows, the column-less empty table of the fetch
\* functions included, process_esa_metadata returns an empty table and raises
\* nothing.
C13_EmptyInputEmptyResult ==
    pc = "agg_done" /\ input_df.rows = <<>> =>
        agg_raised = "none" /\ locations_df.rows = <<>>

\* C14: max_value is computed if and only if the column is
\* active_total_consumption_import; with records left after the filter it is
\* the largest of their readings, so at most the ceiling (with none left it is
\* NaN); for any other column there is no max value and no reference line.
C14_MaxValueOfFilteredSeries ==
    pc = "plot_done" =>
        /\ plot.max_value # None <=> y_column = PrimaryColumn
        /\ plot.hline <=> y_column = PrimaryColumn
        /\ y_column = PrimaryColumn /\ plot.data # <<>> =>
              /\ plot.max_value.kind = "num"
              /\ plot.max_value.v <= OutlierCeiling
              /\ \E i \in 1..Len(plot.data) : plot.data[i][y_column].v = plot.max_value.v
              /\ \A i \in 1..Len(plot.data) : plot.data[i][y_column].v <= plot.max_value.v
        /\ y_column = PrimaryColumn /\ plot.data = <<>> => plot.max_value = NaN

\* An outlier is dropped and the maximum is taken over what is left.
C14_Witness ==
    /\ pc = "plot_done"
    /\ y_column = PrimaryColumn
    /\ \E i \in 1..Len(combined_data.rows) :
          combined_data.rows[i][y_column] = Num(2 * OutlierCeiling)
    /\ Len(plot.data) = 2
    /\ plot.max_value = Num(OutlierCeiling)
    /\ plot.hline

\* C15: each output row carries the display fields of the first input row,
\* in input order, that has its secondary_substation_id.
C15_FirstOccurrenceFields ==
    pc = "agg_done" /\ agg_raised = "none" =>
        \A k \in 1..Len(locations_df.rows) :
            LET out == locations_df.rows[k]
                first == CHOOSE i \in RowsWithId(input_df.rows, out.secondary_substation_id) :
                            \A j \in RowsWithId(input_df.rows, out.secondary_substation_id) : i <= j
            IN  \A c \in RawColumns : out[c] = input_df.rows[first][c]

\* Two rows of one substation that differ in name and feeder: the first wins.
C15_Witness ==
    /\ pc = "agg_done"
    /\ Len(input_df.rows) = 2
    /\ input_df.rows[1].secondary_substation_id = input_df.rows[2].secondary_substation_id
    /\ input_df.rows[1].secondary_substation_name # input_df.rows[2].secondary_substation_name
    /\ input_df.rows[1].lv_feeder_id # input_df.rows[2].lv_feeder_id
    /\ Len(locations_df.rows) = 1
    /\ locations_df.rows[1].secondary_substation_name = input_df.rows[1].secondary_substation_name

AreasPresent == {map_locations.rows[i].license_area_name : i \in 1..Len(map_locations.rows)}

\* C11: in categorical mode each license area gets palette[i mod N], i being
\* its index among the sorted unique area names, so the mapping depends only
\* on the set of areas present and not on the order of the rows.
C11_ColorsBySortedAreaOrder ==
    pc = "map_done" /\ show_all_areas /\ map_locations.rows # <<>> =>
        /\ DOMAIN color_map = AreasPresent
        /\ \A a \in AreasPresent :
              color_map[a] =
                  colors[((PositionIn(SortedAreas(AreasPresent), a) - 1) % Len(colors)) + 1]

RECURSIVE SumOfRowCounts(_)
SumOfRowCounts(tables) ==
    IF tables = <<>> THEN 0
    ELSE Len(tables[1].rows) + SumOfRowCounts(Tail(tables))

\* What the provider holds for a feeder that has readings.
ProviderRows(esa_id, range) == FetchSmartMeterData(esa_id, range, {}).rows

RowsOfFeeder(rows, esa_id) == {k \in 1..Len(rows) : rows[k].esa_id = esa_id}

\* C16: the merged table is the concatenation of the per-feeder tables: its
\* row count is the sum of the row counts of the non-empty per-feeder
\* results, every row carries the lv_feeder_id of the feeder whose ESA it was
\* fetched for, and the rows are the provider's own, feeder after feeder.
C16_MergedIsConcatenation ==
    run.plotted =>
        LET rows == run.combined.rows
            all_data == cached_smart_meter_data[1]
        IN  /\ \A t \in 1..Len(all_data) : all_data[t].rows # <<>>
            /\ Len(rows) = SumOfRowCounts(all_data)
            /\ \A k \in 1..Len(rows) :
                  /\ \E d \in 1..Len(DirectoryRows) :
                        /\ DirectoryRows[d].esa_id = rows[k].esa_id
                        /\ DirectoryRows[d].lv_feeder_id = rows[k].lv_feeder_id
                  /\ \E j \in 1..Len(ProviderRows(rows[k].esa_id, run.date_range)) :
                        \A c \in SmartMeterColumns :
                            rows[k][c] = ProviderRows(rows[k].esa_id, run.date_range)[j][c]
                  /\ Cardinality(RowsOfFeeder(rows, rows[k].esa_id)) =
                        Len(ProviderRows(rows[k].esa_id, run.date_range))
            /\ \A i, j, k \in 1..Len(rows) :
                  i < j /\ j < k /\ rows[i].esa_id = rows[k].esa_id =>
                      rows[j].esa_id = rows[i].esa_id

\* Substation A, fetched in this run, with readings for some of its feeders
\* and none for others.
C16_Witness ==
    /\ run.plotted /\ run.fetched # <<>> /\ run.selected = "A"
    /\ Len(cached_smart_meter_data[1]) >= 2
    /\ Len(cached_smart_meter_data[1]) < Len(run.fetched)

\* C18: in Map Click mode, for every radius the sidebar permits (0 included),
\* rendering the map after a click computes a zoom level in 1..18 and does
\* not raise.
C18_ZoomForEverySidebarRadius ==
    run.mode = "Map Click" /\ run.rendered = "circle" =>
        /\ run.zoom.raised = "none"
        /\ run.zoom.value \in MinZoom..MaxZoom

\* The rows were fetched for this substation and this date range: a reading
\* for every day of the range and for no other day.
FetchedFor(rows, substation_id, range) ==
    \A k \in 1..Len(rows) :
        /\ rows[k].esa_id[2] = substation_id
        /\ {rows[j].data_timestamp : j \in RowsOfFeeder(rows, rows[k].esa_id)}
              = range[1]..range[2]

\* C19: whenever smart-meter data is plotted, the cached data used for the
\* plot was fetched for the selected substation id and the current date
\* range; a run that selects a substation fetches exactly when the id or the
\* date range differs from the ones recorded at the last fetch; the recorded
\* id, the recorded date range and the cached data change together or not at
\* all.
C19_CacheMatchesSelection ==
    [][/\ run'.plotted =>
            /\ run'.combined.rows = RowsOfAll(cached_smart_meter_data'[1])
            /\ last_clicked_substation' = run'.selected
            /\ last_date_range' = run'.date_range
            /\ FetchedFor(run'.combined.rows, run'.selected, run'.date_range)
       /\ run'.selected # "None" =>
            (run'.fetched # <<>> <=>
                \/ last_clicked_substation # run'.selected
                \/ last_date_range # run'.date_range)
       /\ run'.selected = "None" => run'.fetched = <<>>
       /\ IF run'.fetched # <<>>
          THEN /\ last_clicked_substation' = run'.selected
               /\ last_date_range' = run'.date_range
               /\ cached_smart_meter_data' # <<>>
               /\ \A t \in 1..Len(cached_smart_meter_data'[1]) :
                     \E f \in 1..Len(run'.fetched) :
                         /\ run'.fetched[f][2] = run'.date_range
                         /\ run'.fetched[f][1]
                               = cached_smart_meter_data'[1][t].rows[1].esa_id
          ELSE UNCHANGED <<last_clicked_substation, last_date_range,
                           cached_smart_meter_data>>
      ]_vars

\* A plot drawn from the cache, without a fetch in the run.
C19_Witness ==
    run.plotted /\ run.selected # "None" /\ run.fetched = <<>>

WithinThreshold(clicked, location) ==
    /\ Abs(clicked[1] - location[1]) <= ClickThreshold
    /\ Abs(clicked[2] - location[2]) <= ClickThreshold

\* C20: map_click_location is None exactly when map_click_grid_ref is None,
\* and when set the grid reference is the one derived from the stored
\* location; in Map Click mode no metadata fetch is issued before the first
\* click; a click within 0.001 degrees of the stored location in latitude and
\* in longitude leaves both fields as they are.
C20_ClickFieldsConsistent ==
    [][/\ map_click_location' = <<>> <=> map_click_grid_ref' = <<>>
       /\ map_click_location' # <<>> =>
            map_click_grid_ref'
                = LatlonToGridReference(map_click_location'[1], map_click_location'[2])
       /\ run'.mode = "Map Click" /\ run'.near # <<>> =>
            /\ map_click_location # <<>>
            /\ run'.near[1] = map_click_grid_ref
       /\ (/\ run'.mode = "Map Click"
           /\ run'.last_clicked # <<>>
           /\ map_click_location # <<>>
           /\ WithinThreshold(run'.last_clicked, map_click_location))
          => UNCHANGED <<map_click_location, map_click_grid_ref>>
      ]_vars

\* A click on another point that is within the threshold of the stored one.
C20_Witness ==
    /\ run.mode = "Map Click" /\ run.near # <<>>
    /\ run.last_clicked # <<>> /\ run.last_clicked # map_click_location
    /\ ~run.rerun

\* The esa_id of the directory's rows for a substation, in directory order.
EsaIdsOf(substation_id) ==
    LET of == SelectIdx(DirectoryRows,
                        {k \in 1..Len(DirectoryRows) :
                            DirectoryRows[k].secondary_substation_id = substation_id})
    IN  [k \in 1..Len(of) |-> of[k].esa_id]

\* C21: for one substation selection the fetch loop issues at most 10 feeder
\* fetches, for the substation's feeders in metadata order; a feeder whose
\* fetch returns no data still counts toward the 10, so the merged data holds
\* series for at most 10 feeders and no feeder beyond the tenth is fetched.
C21_AtMostTenFetchesInOrder ==
    run.fetched # <<>> =>
        LET ids == EsaIdsOf(run.selected)
            taken == Min2(FeederLimit, Len(ids))
            all_data == cached_smart_meter_data[1]
        IN  /\ Len(run.fetched) <= FeederLimit
            /\ Len(run.fetched) = taken
            /\ \A k \in 1..Len(run.fetched) :
                  run.fetched[k] = <<ids[k], run.date_range>>
            /\ \A k \in (taken + 1)..Len(ids), f \in 1..Len(run.fetched) :
                  run.fetched[f][1] # ids[k]
            /\ Len(all_data) <= FeederLimit
            /\ Cardinality({all_data[t].rows[1].esa_id : t \in 1..Len(all_data)})
                  = Len(all_data)
            /\ \A t \in 1..Len(all_data) :
                  \E k \in 1..taken : all_data[t].rows[1].esa_id = ids[k]
            /\ Cardinality({run.combined.rows[k].lv_feeder_id :
                              k \in 1..Len(run.combined.rows)}) <= FeederLimit

\* Substation A, with more feeders than the limit: ten fetches, one of them
\* without data, and the feeder after the tenth left out.
C21_Witness ==
    /\ run.selected = "A" /\ Len(EsaIdsOf("A")) > FeederLimit
    /\ Len(run.fetched) = FeederLimit
    /\ cached_smart_meter_data[1] # <<>>
    /\ Len(cached_smart_meter_data[1]) < FeederLimit

====
